---- MODULE Spec2Model ----
(***************************************************************************)
(* The in-memory item store of server.js and its five Express routes.      *)
(* One action per route handler; each handler is a pure function of the    *)
(* store and the request, returning the new store and the response.        *)
(***************************************************************************)
EXTENDS Integers, Sequences, FiniteSets, TLC

\* items:     `let items = [...]`, the store
\* prevItems: the store as it was when the last request arrived
\* req:       the last request: method, :id path text, JSON body
\* res:       the response the handler sent for it
\* removed:   the ids DELETE has removed that no stored item holds now
VARIABLES items, prevItems, req, res, removed

vars == <<items, prevItems, req, res, removed>>

(* ------------------------------ bounds --------------------------------- *)

\* POST is not issued once the next id would exceed MaxId.
MaxId == 4

(* --------------------------- JSON / JS values -------------------------- *)

Undefined == [t |-> "undefined", s |-> "", n |-> 0]
Str(x)    == [t |-> "string", s |-> x, n |-> 0]

\* Variant: only a missing value is falsy, the empty string is not.
Truthy_definedOnly(v) == v.t # "undefined"

\* JavaScript ToBoolean, as used by `!v` and `v || w`.
Truthy(v) ==
    CASE v.t = "string" -> v.s # ""
      [] v.t = "number" -> v.n # 0
      [] OTHER -> FALSE

\* Variant: `a ?? b`, which falls back only when a is missing.
Or_nullish(a, b) == IF a.t \in {"undefined", "null"} THEN b ELSE a

\* JavaScript `a || b`.
Or(a, b) == IF Truthy(a) THEN a ELSE b

(* ------------------------------ parseInt ------------------------------- *)
\* A text is the sequence of the UTF-16 code units of a JavaScript string:
\* "2a" is <<50, 97>>.

NaN == [nan |-> TRUE, val |-> 0]
Number(k) == [nan |-> FALSE, val |-> k]

\* The characters parseInt skips in front of the number (StrWhiteSpaceChar):
\* TAB, LF, VT, FF, CR, SP, NBSP, U+1680, U+2000..U+200A, LS, PS, U+202F,
\* U+205F, U+3000 and the byte order mark U+FEFF.
WhiteSpace ==
    {9, 10, 11, 12, 13, 32, 160, 5760} \cup (8192..8202)
        \cup {8232, 8233, 8239, 8287, 12288, 65279}

\* "0".."9", "a".."f", "A".."F"
DigitChars == 48..57
LowerDigitChars == 97..102
UpperDigitChars == 65..70

\* Value of a character as a digit, 99 when it is no digit in any radix <= 16.
DigitVal(c) ==
    IF c \in DigitChars THEN c - 48
    ELSE IF c \in LowerDigitChars THEN c - 97 + 10
    ELSE IF c \in UpperDigitChars THEN c - 65 + 10
    ELSE 99

RECURSIVE TrimLeft(_)
TrimLeft(text) ==
    IF text # <<>> /\ Head(text) \in WhiteSpace THEN TrimLeft(Tail(text)) ELSE text

\* The longest prefix of text made of digits of the radix.
RECURSIVE DigitPrefix(_, _)
DigitPrefix(text, radix) ==
    IF text # <<>> /\ DigitVal(Head(text)) < radix
    THEN <<Head(text)>> \o DigitPrefix(Tail(text), radix)
    ELSE <<>>

RECURSIVE DigitsValue(_, _, _)
DigitsValue(digits, radix, acc) ==
    IF digits = <<>> THEN acc
    ELSE DigitsValue(Tail(digits), radix, acc * radix + DigitVal(Head(digits)))

\* parseInt(text) with no radix argument: leading white space, a sign
\* ("+" 43, "-" 45), "0x" or "0X" (48, then 120 or 88) for radix 16, then the
\* longest run of digits; NaN when there is none.  Exact where V8 is, that
\* is for values below 2^53 (TLC itself evaluates integers below 2^31).
parseInt(text) ==
    LET s1     == TrimLeft(text)
        signed == s1 # <<>> /\ Head(s1) \in {43, 45}
        sign   == IF s1 # <<>> /\ Head(s1) = 45 THEN -1 ELSE 1
        s2     == IF signed THEN Tail(s1) ELSE s1
        hex    == Len(s2) >= 2 /\ s2[1] = 48 /\ s2[2] \in {120, 88}
        radix  == IF hex THEN 16 ELSE 10
        s3     == IF hex THEN Tail(Tail(s2)) ELSE s2
        digits == DigitPrefix(s3, radix)
    IN  IF digits = <<>> THEN NaN
        ELSE Number(sign * DigitsValue(digits, radix, 0))

\* `i.id === id` for an item id (an integer) and a parseInt result.
StrictEq(itemId, id) == ~id.nan /\ itemId = id.val

(* ------------------------------- store --------------------------------- *)

Item(id, name, description) ==
    [id |-> id, name |-> name, description |-> description]

SeedItems ==
    << Item(1, Str("Item A"), Str("Description for Item A")),
       Item(2, Str("Item B"), Str("Description for Item B")),
       Item(3, Str("Item C"), Str("Description for Item C")) >>

DefaultDescription == Str("No description provided")

\* Math.max over a non-empty list of numbers.
RECURSIVE MathMax(_)
MathMax(ns) ==
    IF Len(ns) = 1 THEN ns[1]
    ELSE LET m == MathMax(Tail(ns)) IN IF ns[1] > m THEN ns[1] ELSE m

\* Variant: the next id taken from the item count instead of the largest id.
generateId_count(its) == Len(its) + 1

generateId(its) ==
    LET maxId == IF Len(its) > 0
                 THEN MathMax([k \in 1..Len(its) |-> its[k].id])
                 ELSE 0
    IN  maxId + 1

\* items.findIndex(i => i.id === id), 1-based; 0 stands for -1.
findIndex(its, id) ==
    IF \E k \in 1..Len(its) : StrictEq(its[k].id, id)
    THEN CHOOSE k \in 1..Len(its) :
            /\ StrictEq(its[k].id, id)
            /\ \A j \in 1..(k - 1) : ~StrictEq(its[j].id, id)
    ELSE 0

\* Variant: items.filter(i => i.id > id).
RECURSIVE filterOut_greater(_, _)
filterOut_greater(its, id) ==
    IF its = <<>> THEN <<>>
    ELSE IF ~id.nan /\ Head(its).id > id.val
         THEN <<Head(its)>> \o filterOut_greater(Tail(its), id)
         ELSE filterOut_greater(Tail(its), id)

\* items.filter(i => i.id !== id)
RECURSIVE filterOut(_, _)
filterOut(its, id) ==
    IF its = <<>> THEN <<>>
    ELSE IF StrictEq(Head(its).id, id)
         THEN filterOut(Tail(its), id)
         ELSE <<Head(its)>> \o filterOut(Tail(its), id)

(* ----------------------------- responses ------------------------------- *)

Json(status, payload) == [status |-> status, kind |-> "json", text |-> "", json |-> payload]
Text(status, text)    == [status |-> status, kind |-> "text", text |-> text, json |-> <<>>]
Empty(status)         == [status |-> status, kind |-> "empty", text |-> "", json |-> <<>>]

NotFound == Text(404, "Item not found")
NameRequired == Text(400, "Name is required to create an item.")

Result(its, response) == [items |-> its, res |-> response]

(* ------------------------------ handlers ------------------------------- *)

\* app.get('/api/items')
GetAll(its) == Result(its, Json(200, its))

\* app.get('/api/items/:id')
GetOne(its, path) ==
    LET id == parseInt(path)
        k  == findIndex(its, id)
    IN  IF k # 0 THEN Result(its, Json(200, <<its[k]>>))
        ELSE Result(its, NotFound)

\* Variant: the new item is put in front (unshift) instead of appended (push).
Post_unshift(its, body) ==
    IF ~Truthy(body.name) THEN Result(its, NameRequired)
    ELSE LET newItem == Item(generateId(its), body.name,
                             Or(body.description, DefaultDescription))
         IN  Result(<<newItem>> \o its, Json(201, <<newItem>>))

\* app.post('/api/items')
Post(its, body) ==
    IF ~Truthy(body.name) THEN Result(its, NameRequired)
    ELSE LET newItem == Item(generateId(its), body.name,
                             Or(body.description, DefaultDescription))
         IN  Result(Append(its, newItem), Json(201, <<newItem>>))

\* Variant: an update of an unknown id creates the item (upsert).
Put_upsert(its, path, body) ==
    LET id        == parseInt(path)
        itemIndex == findIndex(its, id)
    IN  IF itemIndex # 0
        THEN LET updated == [its[itemIndex] EXCEPT
                                !.name = Or(body.name, its[itemIndex].name),
                                !.description = Or(body.description,
                                                   its[itemIndex].description)]
                 its2 == [its EXCEPT ![itemIndex] = updated]
             IN  Result(its2, Json(200, <<its2[itemIndex]>>))
        ELSE LET newItem == Item(generateId(its), Or(body.name, Str("Untitled")),
                                 Or(body.description, DefaultDescription))
             IN  Result(Append(its, newItem), Json(200, <<newItem>>))

\* Variant: the body's fields overwrite the item's without a fallback.
Put_overwrite(its, path, body) ==
    LET id        == parseInt(path)
        itemIndex == findIndex(its, id)
    IN  IF itemIndex # 0
        THEN LET updated == [its[itemIndex] EXCEPT
                                !.name = body.name,
                                !.description = body.description]
                 its2 == [its EXCEPT ![itemIndex] = updated]
             IN  Result(its2, Json(200, <<its2[itemIndex]>>))
        ELSE Result(its, NotFound)

\* Variant: the updated item is taken out and pushed back at the end.
Put_reinsert(its, path, body) ==
    LET id        == parseInt(path)
        itemIndex == findIndex(its, id)
    IN  IF itemIndex # 0
        THEN LET updated == [its[itemIndex] EXCEPT
                                !.name = Or(body.name, its[itemIndex].name),
                                !.description = Or(body.description,
                                                   its[itemIndex].description)]
                 its2 == Append(filterOut(its, id), updated)
             IN  Result(its2, Json(200, <<updated>>))
        ELSE Result(its, NotFound)

\* app.put('/api/items/:id')
Put(its, path, body) ==
    LET id        == parseInt(path)
        itemIndex == findIndex(its, id)
    IN  IF itemIndex # 0
        THEN LET updated == [its[itemIndex] EXCEPT
                                !.name = Or(body.name, its[itemIndex].name),
                                !.description = Or(body.description,
                                                   its[itemIndex].description)]
                 its2 == [its EXCEPT ![itemIndex] = updated]
             IN  Result(its2, Json(200, <<its2[itemIndex]>>))
        ELSE Result(its, NotFound)

\* Variant: items.splice(items.findIndex(...), 1), where an index of -1
\* addresses the last element.
Delete_splice(its, path) ==
    LET id            == parseInt(path)
        initialLength == Len(its)
        k             == findIndex(its, id)
        at            == IF k # 0 THEN k ELSE initialLength
        its2          == SubSeq(its, 1, at - 1) \o SubSeq(its, at + 1, initialLength)
    IN  IF Len(its2) < initialLength THEN Result(its2, Empty(204))
        ELSE Result(its2, NotFound)

\* app.delete('/api/items/:id')
Delete(its, path) ==
    LET id            == parseInt(path)
        initialLength == Len(its)
        its2          == filterOut(its, id)
    IN  IF Len(its2) < initialLength THEN Result(its2, Empty(204))
        ELSE Result(its2, NotFound)

(* ------------------------------ requests ------------------------------- *)

Body(name, description) == [name |-> name, description |-> description]
NoBody == Body(Undefined, Undefined)
Request(method, path, body) == [method |-> method, path |-> path, body |-> body]

\* The decimal text of a one-digit id.
IdText(k) == <<48 + k>>

\* The ids' texts and "ab", "2a", "\v3" (a vertical tab, then 3).
PathTexts ==
    {IdText(k) : k \in 1..MaxId} \cup {<<97, 98>>, <<50, 97>>, <<11, 51>>}

PostBodies ==
    { NoBody,
      Body(Str(""), Str("D")),
      Body(Str("X"), Undefined),
      Body(Str("X"), Str("")),
      Body(Str("X"), Str("D")) }

PutBodies ==
    { Body(Str("X"), Undefined),
      Body(Str(""), Str("D")),
      Body(Undefined, Str("")) }

(* --------------------------- state machine ----------------------------- *)

Ids(its) == {its[k].id : k \in 1..Len(its)}

Init ==
    /\ items = SeedItems
    /\ prevItems = SeedItems
    /\ req = Request("NONE", <<>>, NoBody)
    /\ res = Empty(0)
    /\ removed = {}

\* The handler runs to completion on the store and sends its response.
Respond(result) ==
    /\ prevItems' = items
    /\ items' = result.items
    /\ res' = result.res
    /\ removed' = (removed \cup (Ids(items) \ Ids(result.items)))
                        \ Ids(result.items)

DoGetAll ==
    /\ req' = Request("GET", <<>>, NoBody)
    /\ Respond(GetAll(items))

DoGetOne ==
    \E path \in PathTexts :
        /\ req' = Request("GET", path, NoBody)
        /\ Respond(GetOne(items, path))

DoPost ==
    \E body \in PostBodies :
        /\ generateId(items) <= MaxId
        /\ req' = Request("POST", <<>>, body)
        /\ Respond(Post(items, body))

DoPut ==
    \E path \in PathTexts, body \in PutBodies :
        /\ req' = Request("PUT", path, body)
        /\ Respond(Put(items, path, body))

DoDelete ==
    \E path \in PathTexts :
        /\ req' = Request("DELETE", path, NoBody)
        /\ Respond(Delete(items, path))

Next == DoGetAll \/ DoGetOne \/ DoPost \/ DoPut \/ DoDelete

Spec == Init /\ [][Next]_vars

(* ------------------------------ properties ----------------------------- *)

\* A value that is a text with at least one character.
NonEmptyText(v) == v.t = "string" /\ v.s # ""

\* The largest id of a non-empty store.
LargestId(its) == CHOOSE m \in Ids(its) : \A x \in Ids(its) : x <= m

\* 1 + the largest id in the store, 1 for the empty store.
NextIdOf(its) == IF its = <<>> THEN 1 ELSE 1 + LargestId(its)

\* C1: no two items of the store have the same id.
C1_DistinctIds ==
    \A i, j \in 1..Len(items) : i # j => items[i].id # items[j].id

\* A POST has just created an item under an id a DELETE had freed.
C1_Witness ==
    /\ req.method = "POST" /\ res.status = 201
    /\ res.json[1].id <= 3
    /\ Len(items) >= 2

\* C2 as stated: a POST with a non-empty name answers 201 with the item
\* (1 + largest id, the given name, the given description or the default
\* when no description is given), appended last, nothing else changed.
C2_PostCreates_Original ==
    (req.method = "POST" /\ NonEmptyText(req.body.name)) =>
        LET newItem == Item(NextIdOf(prevItems), req.body.name,
                            IF req.body.description.t # "undefined"
                            THEN req.body.description ELSE DefaultDescription)
        IN  /\ res = Json(201, <<newItem>>)
            /\ items = Append(prevItems, newItem)

\* C2 amended: a POST with a non-empty name answers 201 with the item
\* (1 + largest id, 1 on the empty store, 4 on the seeded store; the given
\* name; the given description, or the default when no description or an
\* empty one is given), appended last, every earlier item unchanged.
C2_PostCreates ==
    (req.method = "POST" /\ NonEmptyText(req.body.name)) =>
        LET newItem == Item(NextIdOf(prevItems), req.body.name,
                            IF NonEmptyText(req.body.description)
                            THEN req.body.description ELSE DefaultDescription)
        IN  /\ res = Json(201, <<newItem>>)
            /\ items = Append(prevItems, newItem)
            /\ Len(items) = Len(prevItems) + 1
            /\ items[Len(items)] = newItem
            /\ \A k \in 1..Len(prevItems) : items[k] = prevItems[k]
            /\ (prevItems = <<>> => newItem.id = 1)
            /\ (prevItems = SeedItems => newItem.id = 4)

\* A POST with a name and an empty description has created item 4 on the
\* seeded store.
C2_Witness ==
    /\ req.method = "POST" /\ res.status = 201
    /\ prevItems = SeedItems
    /\ req.body.description = Str("")
    /\ items[4].id = 4

\* C3: a POST never assigns an id that an item removed by DELETE held.
C3_NoIdReuse ==
    [][(req'.method = "POST" /\ res'.status = 201) =>
            res'.json[1].id \notin removed]_vars

\* C4: a POST without a name or with an empty name answers 400 with the
\* fixed message and leaves the store as it was; no id is consumed.
C4_PostRejected ==
    (req.method = "POST" /\ ~NonEmptyText(req.body.name)) =>
        /\ res.status = 400
        /\ res.kind = "text"
        /\ res.text = "Name is required to create an item."
        /\ items = prevItems
        /\ NextIdOf(items) = NextIdOf(prevItems)

\* A POST with an empty name and a description was rejected on a store
\* that earlier requests had changed.
C4_Witness ==
    /\ req.method = "POST" /\ res.status = 400
    /\ req.body.name = Str("") /\ req.body.description = Str("D")
    /\ prevItems # SeedItems

\* C5: GET, PUT and DELETE on an integer id that no item holds answer 404
\* 'Item not found' and leave the store unchanged.
C5_NotFound ==
    (/\ req.method \in {"GET", "PUT", "DELETE"}
     /\ req.path # <<>>
     /\ ~parseInt(req.path).nan
     /\ parseInt(req.path).val \notin Ids(prevItems)) =>
        /\ res.status = 404
        /\ res.kind = "text"
        /\ res.text = "Item not found"
        /\ items = prevItems

\* A PUT carrying a name was answered 404 for an id that a DELETE had removed.
C5_Witness ==
    /\ req.method = "PUT" /\ res.status = 404
    /\ NonEmptyText(req.body.name)
    /\ ~parseInt(req.path).nan
    /\ parseInt(req.path).val \in removed

\* C6: a PUT on a stored id answers 200 with the updated item and changes
\* only that item: name and description each become the body's value when
\* that is present and non-empty and stay otherwise; the item's id and
\* position, every other item and the item count are unchanged.
C6_PutUpdatesOne ==
    (/\ req.method = "PUT"
     /\ ~parseInt(req.path).nan
     /\ parseInt(req.path).val \in Ids(prevItems)) =>
        \E k \in 1..Len(prevItems) :
            /\ prevItems[k].id = parseInt(req.path).val
            /\ Len(items) = Len(prevItems)
            /\ items[k].id = prevItems[k].id
            /\ items[k].name = IF NonEmptyText(req.body.name)
                                THEN req.body.name ELSE prevItems[k].name
            /\ items[k].description = IF NonEmptyText(req.body.description)
                                       THEN req.body.description
                                       ELSE prevItems[k].description
            /\ \A j \in 1..Len(prevItems) : j # k => items[j] = prevItems[j]
            /\ res = Json(200, <<items[k]>>)

\* A PUT with an empty name and a description has updated the description
\* of the second of three items and kept its name.
C6_Witness ==
    /\ req.method = "PUT" /\ res.status = 200
    /\ req.body = Body(Str(""), Str("D"))
    /\ Len(items) = 3
    /\ items[2].description = Str("D")
    /\ prevItems[2].description # Str("D")
    /\ items[2].name = prevItems[2].name

\* C7: a DELETE on a stored id answers 204 and removes exactly that item:
\* the count drops by one and the other items keep their order; the same
\* DELETE issued next answers 404 and changes nothing.
C7_DeleteRemovesOne ==
    /\ [](  (/\ req.method = "DELETE"
             /\ ~parseInt(req.path).nan
             /\ parseInt(req.path).val \in Ids(prevItems)) =>
                /\ res = Empty(204)
                /\ Len(items) = Len(prevItems) - 1
                /\ \E k \in 1..Len(prevItems) :
                      /\ prevItems[k].id = parseInt(req.path).val
                      /\ items = SubSeq(prevItems, 1, k - 1)
                                    \o SubSeq(prevItems, k + 1, Len(prevItems)) )
    /\ [][ (req.method = "DELETE" /\ res.status = 204 /\ req' = req) =>
                (/\ res'.status = 404
                 /\ res'.text = "Item not found"
                 /\ items' = items) ]_vars

\* A DELETE has removed the middle one of at least three items.
C7_Witness ==
    /\ req.method = "DELETE" /\ res.status = 204
    /\ Len(prevItems) >= 3
    /\ \E k \in 2..(Len(prevItems) - 1) :
          prevItems[k].id = parseInt(req.path).val

\* A path text that is a decimal integer literal.
IsIntegerLiteral(text) ==
    /\ text # <<>>
    /\ \A k \in 1..Len(text) : text[k] \in 48..57

\* C8: a GET /api/items/{id} whose {id} text is not an integer literal
\* answers 404 'Item not found' and leaves the store unchanged.
C8_NonNumericNotFound ==
    (/\ req.method = "GET"
     /\ req.path # <<>>
     /\ ~IsIntegerLiteral(req.path)) =>
        /\ res.status = 404
        /\ res.kind = "text"
        /\ res.text = "Item not found"
        /\ items = prevItems

\* C9: every stored item has a positive integer id, a non-empty name and a
\* non-empty description.
C9_ItemsWellFormed ==
    \A k \in 1..Len(items) :
        /\ items[k].id \in Nat \ {0}
        /\ NonEmptyText(items[k].name)
        /\ NonEmptyText(items[k].description)

\* A PUT whose body carried an empty description was answered 200.
C9_Witness ==
    /\ req.method = "PUT" /\ res.status = 200
    /\ req.body.description = Str("")

\* C10: the same GET, PUT or DELETE issued again right away leaves the
\* store as the first one left it, while a successful POST issued again
\* adds one more item under a different id.
C10_Idempotence ==
    [][ /\ (req' = req /\ req.method \in {"GET", "PUT", "DELETE"}) =>
                items' = items
        /\ (req' = req /\ req.method = "POST" /\ res.status = 201) =>
                /\ res'.status = 201
                /\ Len(items') = Len(items) + 1
                /\ items'[Len(items')].id # items[Len(items)].id
                /\ items'[Len(items')].name = items[Len(items)].name ]_vars

\* A PUT that sets a name was answered 200 on a store that already was as
\* the PUT leaves it.
C10_Witness ==
    /\ req.method = "PUT" /\ res.status = 200
    /\ NonEmptyText(req.body.name)
    /\ items = prevItems

\* A list of items whose ids strictly increase from front to back.
StrictlyAscending(its) ==
    \A i, j \in 1..Len(its) : i < j => its[i].id < its[j].id

\* C11: the store holds its items in strictly ascending order of id: a POST
\* appends an id greater than every id present, a PUT and a DELETE keep the
\* relative order, and GET /api/items lists the items in that order.
C11_AscendingIds ==
    /\ StrictlyAscending(items)
    /\ (req.method = "POST" /\ res.status = 201) =>
            \A k \in 1..Len(prevItems) : prevItems[k].id < items[Len(items)].id
    /\ (req.method = "GET" /\ req.path = <<>>) =>
            (res.status = 200 /\ res.json = items /\ StrictlyAscending(res.json))

\* GET /api/items has listed a store from which a middle item was deleted,
\* one item was updated and to which a POST appended an item.
C11_Witness ==
    /\ req.method = "GET" /\ req.path = <<>> /\ res.status = 200
    /\ Len(res.json) >= 3
    /\ 2 \in removed
    /\ res.json[Len(res.json)].id = 4
    /\ res.json[1].name = Str("X")

====
